---------------------------- MODULE Spec2Model ----------------------------
(***************************************************************************)
(* shell2node, capture mode: the parent process (src/src/shell2node.ts),   *)
(* the instrumented child shell (src/src/utils/rcContent.ts) and the       *)
(* replay script the parent generates.                                     *)
(*                                                                         *)
(* Text is a sequence of characters.  A character is a one-character       *)
(* string, except the word "shell2node", "bash", "zsh" (and their upper    *)
(* case forms) and the opaque words of a path or a timestamp, which are    *)
(* kept as one element each: no other element of the alphabets used here   *)
(* shares a letter with them, so startsWith('shell2node') is "the first  *)
(* element is the word" and includes('bash') is "some element is the     *)
(* word".                                                                  *)
(***************************************************************************)
EXTENDS Integers, Sequences, FiniteSets, TLC

VARIABLES
    argv,          \* process.argv.slice(2)
    envShell,      \* process.env.SHELL: <<>> when unset, else <<path>>
    pc,            \* position of the parent process
    child,         \* how the child was spawned: [args, zdotdir, hooked]
    warned,        \* console.warn of the fallback branch was printed
    log,           \* content of <tmpRoot>/commands.log
    marker,        \* <tmpRoot>/.save_marker exists
    typed,         \* commands the shell has executed so far, in order
    endedBy,       \* how the capture shell ended
    childCode,     \* exit code of the child: <<>> is null
    childSignal,   \* signal that ended the child: <<>> is null
    readFailed,    \* fs.readFileSync(logFile) threw
    raw,           \* const raw of the exit handler
    parsed,        \* what raw.map(...) returns, before .filter(...)
    entries,       \* const entries of the exit handler
    metaDoc,       \* <<>> or <<content of generated/<ts>-meta.json>>
    genFile,       \* <<>> or <<content of generated/<ts>-replay.js>>
    out,           \* tags of the messages printed by the parent
    exitCode,      \* <<>> while running, else <<status of the parent>>
    step,          \* replay: number of run(...) calls made so far
    executed,      \* replay: <<[cmd, result]>> of the run(...) calls made
    replayExit     \* replay: <<>> while running, else <<status>>

vars == <<argv, envShell, pc, child, warned, log, marker, typed, endedBy,
          childCode, childSignal, readFailed, raw, parsed, entries, metaDoc, genFile,
          out, exitCode, step, executed, replayExit>>

parentVars == <<argv, envShell, pc, child, warned, log, marker, typed,
                endedBy, childCode, childSignal, readFailed, raw, parsed, entries,
                metaDoc, genFile, out, exitCode>>

replayVars == <<step, executed, replayExit>>

-----------------------------------------------------------------------------
(* Bounds *)

\* commands typed in one capture session (the control command not counted)
MaxCmds == 3
\* length of an arbitrary log text
MaxLen == 6

-----------------------------------------------------------------------------
(* Characters and text helpers *)

SP == " "
NL == "\n"
CR == "\r"
QUOTE == "\""
BS == "\\"
\* the backtick character, kept as a word
BACKTICK == "<backtick>"
CONTROL == "shell2node"

Whitespace == {SP, NL, CR}

Range(s) == {s[i] : i \in 1..Len(s)}

RECURSIVE Concat(_)
Concat(ss) == IF ss = <<>> THEN <<>> ELSE Head(ss) \o Concat(Tail(ss))

\* All texts over alphabet A of length at most n
RECURSIVE TextsUpTo(_, _)
TextsUpTo(A, n) ==
    IF n = 0 THEN {<<>>}
    ELSE LET shorter == TextsUpTo(A, n - 1)
         IN  shorter \cup {Append(t, a) : t \in shorter, a \in A}

-----------------------------------------------------------------------------
(* String functions of the JavaScript runtime, as the handlers use them *)

\* String.prototype.trim: strips white space at both ends
RECURSIVE TrimStart(_)
TrimStart(s) ==
    IF s # <<>> /\ Head(s) \in Whitespace THEN TrimStart(Tail(s)) ELSE s

RECURSIVE TrimEnd(_)
TrimEnd(s) ==
    IF s # <<>> /\ s[Len(s)] \in Whitespace
    THEN TrimEnd(SubSeq(s, 1, Len(s) - 1))
    ELSE s

Trim(s) == TrimEnd(TrimStart(s))

\* String.prototype.split(/\r?\n/): cur is the piece being read
RECURSIVE SplitFrom(_, _)
SplitFrom(s, cur) ==
    IF s = <<>> THEN <<cur>>
    ELSE IF Len(s) >= 2 /\ s[1] = CR /\ s[2] = NL
         THEN <<cur>> \o SplitFrom(SubSeq(s, 3, Len(s)), <<>>)
    ELSE IF s[1] = NL
         THEN <<cur>> \o SplitFrom(Tail(s), <<>>)
    ELSE SplitFrom(Tail(s), Append(cur, s[1]))

SplitLines(s) == SplitFrom(s, <<>>)

\* String.prototype.indexOf(' '), 0-based, -1 when absent
IndexOfSpace(line) ==
    IF SP \in Range(line)
    THEN (CHOOSE i \in 1..Len(line) :
              line[i] = SP /\ \A j \in 1..(i - 1) : line[j] # SP) - 1
    ELSE -1

\* String.prototype.slice(from) and slice(0, to), 0-based
SliceFrom(s, from) == SubSeq(s, from + 1, Len(s))
SliceTo(s, to) == SubSeq(s, 1, to)

\* String.prototype.startsWith('shell2node')
StartsWithControl(cmd) == cmd # <<>> /\ cmd[1] = CONTROL

\* JSON.stringify of a string: quotes, backslashes and line breaks escaped
JsonEscapeChar(c) ==
    IF c = QUOTE THEN <<BS, QUOTE>>
    ELSE IF c = BS THEN <<BS, BS>>
    ELSE IF c = NL THEN <<BS, "n">>
    ELSE IF c = CR THEN <<BS, "r">>
    ELSE <<c>>

JsonStringify(s) ==
    <<QUOTE>> \o Concat([i \in 1..Len(s) |-> JsonEscapeChar(s[i])]) \o <<QUOTE>>

\* The value the JavaScript engine gives a double-quoted string literal:
\* what run("...") of the replay script receives
RECURSIVE Unescape(_)
Unescape(s) ==
    IF s = <<>> THEN <<>>
    ELSE IF s[1] = BS /\ Len(s) >= 2
         THEN <<(IF s[2] = "n" THEN NL ELSE IF s[2] = "r" THEN CR ELSE s[2])>>
              \o Unescape(SubSeq(s, 3, Len(s)))
    ELSE <<s[1]>> \o Unescape(Tail(s))

JsLiteralValue(lit) == Unescape(SubSeq(lit, 2, Len(lit) - 1))

-----------------------------------------------------------------------------
(* The exit handler's pipeline: read, parse, filter, generate *)

\* an optional value: <<>> is null/undefined, <<v>> is the value v
Null == <<>>
Some(v) == <<v>>

\* raw = text.trim().split(/\r?\n/).filter(Boolean)
IsTruthy(s) == s # <<>>
RawLines(text) == SelectSeq(SplitLines(Trim(text)), IsTruthy)

\* the .map callback: split a line at its first space
ParseLine_LastSpace(line) ==
    IF SP \notin Range(line)
    THEN [ts |-> Null, cmd |-> line]
    ELSE LET idx == (CHOOSE i \in 1..Len(line) :
                         line[i] = SP /\ \A j \in (i + 1)..Len(line) : line[j] # SP) - 1
         IN  [ts |-> Some(SliceTo(line, idx)), cmd |-> SliceFrom(line, idx + 1)]

ParseLine(line) ==
    LET idx == IndexOfSpace(line)
    IN  IF idx = -1
        THEN [ts |-> Null, cmd |-> line]
        ELSE [ts |-> Some(SliceTo(line, idx)), cmd |-> SliceFrom(line, idx + 1)]

\* the .filter callback: e.cmd && !e.cmd.startsWith('shell2node')
KeepEntry(e) == IsTruthy(e.cmd) /\ ~StartsWithControl(e.cmd)

ParseLines(lines) == [i \in 1..Len(lines) |-> ParseLine(lines[i])]

FilterEntries(es) == SelectSeq(es, KeepEntry)

\* JSON.stringify(meta, null, 2): the entries of the metadata document
MetaEntry(e) ==
    [ts  |-> IF e.ts = Null THEN <<"null">> ELSE JsonStringify(e.ts[1]),
     cmd |-> JsonStringify(e.cmd)]

MetaDocument(es) ==
    [tmpWorkspace |-> "tmpRoot",
     entries |-> [i \in 1..Len(es) |-> MetaEntry(es[i])]]

\* the replay script: the header's entry count and one run(<literal>) per entry
RunLine(e) == JsonStringify(e.cmd)

ReplayScript(es) ==
    [captured |-> Len(es), steps |-> [i \in 1..Len(es) |-> RunLine(es[i])]]

-----------------------------------------------------------------------------
(* Shell selection *)

SLASH == "/"

\* process.env.SHELL || '/bin/bash'
DefaultShell == <<SLASH, "bin", SLASH, "bash">>
UserShellOf(env) == IF env = Null \/ env[1] = <<>> THEN DefaultShell ELSE env[1]

\* path.basename: what follows the last separator
RECURSIVE Basename(_)
Basename(path) ==
    IF SLASH \in Range(path) THEN Basename(Tail(path)) ELSE path

\* String.prototype.toLowerCase
LowerChar(c) ==
    IF c = "BASH" THEN "bash" ELSE IF c = "Zsh" THEN "zsh" ELSE c
ToLowerCase(s) == [i \in 1..Len(s) |-> LowerChar(s[i])]

\* String.prototype.includes(word)
Includes(s, word) == word \in Range(s)

ShellBaseOf(userShell) == ToLowerCase(Basename(userShell))

RcFileArgs == <<"--rcfile", "capture_rc.sh", "-i">>
InteractiveArgs == <<"-i">>

\* the if / else if / else that chooses how the child is spawned
SpawnPlan_BashFirst(userShell) ==
    LET shellBase == ToLowerCase(Basename(userShell))
    IN  IF Includes(shellBase, "bash")
        THEN [args |-> RcFileArgs, zdotdir |-> FALSE, warn |-> FALSE]
        ELSE IF Includes(shellBase, "zsh")
        THEN [args |-> InteractiveArgs, zdotdir |-> TRUE, warn |-> FALSE]
        ELSE IF Includes(userShell, "bash")
        THEN [args |-> RcFileArgs, zdotdir |-> FALSE, warn |-> TRUE]
        ELSE [args |-> InteractiveArgs, zdotdir |-> FALSE, warn |-> TRUE]

SpawnPlan(userShell) ==
    LET shellBase == ShellBaseOf(userShell)
    IN  IF Includes(shellBase, "zsh")
        THEN [args |-> InteractiveArgs, zdotdir |-> TRUE, warn |-> FALSE]
        ELSE IF Includes(shellBase, "bash")
        THEN [args |-> RcFileArgs, zdotdir |-> FALSE, warn |-> FALSE]
        ELSE IF Includes(userShell, "bash")
        THEN [args |-> RcFileArgs, zdotdir |-> FALSE, warn |-> TRUE]
        ELSE [args |-> InteractiveArgs, zdotdir |-> FALSE, warn |-> TRUE]

\* Whether the generated rc can take effect in the child: a zsh reads
\* $ZDOTDIR/.zshrc, a bash reads --rcfile; a shell spawned with neither has
\* no hook and no shell2node function; another shell handed --rcfile may or
\* may not honour it.
HookedChoices(userShell, plan) ==
    IF plan.zdotdir THEN {TRUE}
    ELSE IF plan.args = RcFileArgs
         THEN (IF Includes(ShellBaseOf(userShell), "bash") THEN {TRUE} ELSE BOOLEAN)
    ELSE {FALSE}

-----------------------------------------------------------------------------
(* Exit statuses *)

\* usageAndExit: any status other than 0
UsageExit == 1
\* process.exit(0) of the exit handler
NormalExit == 0
\* process.exit(2) of the error handler
SpawnErrorExit == 2
\* the status Node.js ends with when a handler throws and nothing catches it
UncaughtExit == 1

\* statuses a shell or a replayed command may end with
ExitCodes == {0, 1, 3}
Signals == {"SIGTERM"}

-----------------------------------------------------------------------------
(* Inputs *)

ArgvChoices == {<<>>, <<"capture">>, <<"save">>}

EnvShellChoices ==
    {Null, Some(<<>>),
     Some(<<SLASH, "bin", SLASH, "bash">>),
     Some(<<SLASH, "bin", SLASH, "zsh">>),
     Some(<<SLASH, "bin", SLASH, "Zsh">>),
     Some(<<SLASH, "bin", SLASH, "BASH">>),
     Some(<<SLASH, "bin", SLASH, "zsh", "bash">>),
     Some(<<SLASH, "opt", SLASH, "zsh", SLASH, "bash">>),
     Some(<<SLASH, "bin", SLASH, "fish">>),
     Some(<<SLASH, "opt", SLASH, "bash", SLASH, "fish">>),
     Some(<<SLASH, "opt", SLASH, "BASH", SLASH, "fish">>)}

\* commands a user may run in the capture shell
SaveCmd == <<CONTROL, SP, "save">>
CancelCmd == <<CONTROL, SP, "cancel">>
ExitCmd == <<"exit">>
Cmds ==
    {<<"ls">>,
     <<"echo", SP, "hi">>,
     <<"echo", SP, QUOTE, "a", SP, BACKTICK, "b", BACKTICK, QUOTE>>,
     <<"echo", SP, QUOTE, "a", NL, "b", QUOTE>>,
     <<"echo", SP, BS, "n">>,
     <<CONTROL, "-gui", SP, "start">>}

-----------------------------------------------------------------------------
(* Initial states *)

Idle ==
    /\ child = [args |-> <<>>, zdotdir |-> FALSE, hooked |-> FALSE]
    /\ warned = FALSE
    /\ typed = <<>>
    /\ endedBy = "none"
    /\ childCode = Null
    /\ childSignal = Null
    /\ readFailed = FALSE
    /\ raw = <<>>
    /\ parsed = <<>>
    /\ entries = <<>>
    /\ metaDoc = Null
    /\ genFile = Null
    /\ out = {}
    /\ exitCode = Null
    /\ step = 0
    /\ executed = <<>>
    /\ replayExit = Null

\* the process has just been started
Init ==
    /\ argv \in ArgvChoices
    /\ envShell \in EnvShellChoices
    /\ pc = "start"
    /\ log = <<>>
    /\ marker = FALSE
    /\ Idle

-----------------------------------------------------------------------------
(* The parent, up to the spawn *)

\* top level and the async body up to child.on(...): usage check, workspace,
\* rc files, shell selection, spawn
Main ==
    /\ pc = "start"
    /\ IF argv = <<>> \/ argv[1] # "capture"
       THEN /\ pc' = "done"
            /\ exitCode' = Some(UsageExit)
            /\ out' = out \cup {"usage"}
            /\ UNCHANGED <<child, warned, log>>
       ELSE LET userShell == UserShellOf(envShell)
                plan == SpawnPlan(userShell)
            IN  /\ log' = <<>>
                /\ warned' = plan.warn
                /\ out' = out \cup {"help"}
                /\ \E spawned \in BOOLEAN, h \in HookedChoices(userShell, plan) :
                       /\ child' = [args |-> plan.args, zdotdir |-> plan.zdotdir,
                                    hooked |-> h]
                       /\ pc' = IF spawned THEN "running" ELSE "spawn_error"
                /\ UNCHANGED exitCode
    /\ UNCHANGED <<argv, envShell, marker, typed, endedBy, childCode,
                   childSignal, readFailed, raw, parsed, entries, metaDoc, genFile>>
    /\ UNCHANGED replayVars

\* child.on('error')
OnError ==
    /\ pc = "spawn_error"
    /\ out' = out \cup {"spawn_failed"}
    /\ exitCode' = Some(SpawnErrorExit)
    /\ pc' = "done"
    /\ UNCHANGED <<argv, envShell, child, warned, log, marker, typed, endedBy,
                   childCode, childSignal, readFailed, raw, parsed, entries, metaDoc,
                   genFile>>
    /\ UNCHANGED replayVars

-----------------------------------------------------------------------------
(* The capture shell *)

\* date -u +"%Y-%m-%dT%H:%M:%SZ": one word without white space
DateUTC(n) == "T" \o ToString(n) \o "Z"

\* printf "%s %s\n" "$(date ...)" "$cmd" >> "$SHELL2NODE_LOG"
HookLine(n, cmd) == <<DateUTC(n), SP>> \o cmd \o <<NL>>

\* the log after the hook has fired for cmd; nothing is written when the rc
\* is not in effect
Logged(cmd) == IF child.hooked THEN log \o HookLine(Len(typed), cmd) ELSE log

\* touch "$SHELL2NODE_MARKER" and rm -f "$SHELL2NODE_MARKER": whether the
\* file exists afterwards, given whether it existed before
Touch_Skipped(exists) == exists
Touch(exists) == TRUE
RemoveForce(exists) == FALSE

shellVarsUnchanged ==
    /\ UNCHANGED <<argv, envShell, child, warned, readFailed, raw, parsed, entries,
                   metaDoc, genFile, out, exitCode>>
    /\ UNCHANGED replayVars

\* the user runs a command: the hook logs it, then it runs
RunCommand(cmd) ==
    /\ pc = "running"
    /\ Len(typed) < MaxCmds
    /\ typed' = Append(typed, cmd)
    /\ log' = Logged(cmd)
    /\ UNCHANGED <<pc, marker, endedBy, childCode, childSignal>>
    /\ shellVarsUnchanged

\* shell2node save: touch the marker, exit 0
Save ==
    /\ pc = "running"
    /\ child.hooked
    /\ typed' = Append(typed, SaveCmd)
    /\ log' = Logged(SaveCmd)
    /\ marker' = Touch(marker)
    /\ endedBy' = "save"
    /\ childCode' = Some(0)
    /\ pc' = "child_exited"
    /\ UNCHANGED childSignal
    /\ shellVarsUnchanged

\* shell2node cancel: rm -f the marker, exit 0
Cancel ==
    /\ pc = "running"
    /\ child.hooked
    /\ typed' = Append(typed, CancelCmd)
    /\ log' = Logged(CancelCmd)
    /\ marker' = RemoveForce(marker)
    /\ endedBy' = "cancel"
    /\ childCode' = Some(0)
    /\ pc' = "child_exited"
    /\ UNCHANGED childSignal
    /\ shellVarsUnchanged

\* the builtin exit [n]
ExitBuiltin(code) ==
    /\ pc = "running"
    /\ typed' = Append(typed, ExitCmd)
    /\ log' = Logged(ExitCmd)
    /\ endedBy' = "exit"
    /\ childCode' = Some(code)
    /\ pc' = "child_exited"
    /\ UNCHANGED <<marker, childSignal>>
    /\ shellVarsUnchanged

\* end of input (Ctrl+D): no command runs, the shell ends with the last status
EndOfInput(code) ==
    /\ pc = "running"
    /\ endedBy' = "eof"
    /\ childCode' = Some(code)
    /\ pc' = "child_exited"
    /\ UNCHANGED <<typed, log, marker, childSignal>>
    /\ shellVarsUnchanged

\* the shell is ended by a signal
Killed(sig) ==
    /\ pc = "running"
    /\ endedBy' = "signal"
    /\ childSignal' = Some(sig)
    /\ pc' = "child_exited"
    /\ UNCHANGED <<typed, log, marker, childCode>>
    /\ shellVarsUnchanged

-----------------------------------------------------------------------------
(* The parent, after the child has ended *)

\* const saved = fs.existsSync(markerFile)
Saved_Ignored == TRUE
Saved == marker

\* child.on('exit'): the whole handler.  The read of commands.log either
\* returns the file's content or throws; nothing catches what it throws.
OnExit ==
    /\ pc = "child_exited"
    /\ pc' = "done"
    /\ IF ~Saved
       THEN /\ out' = out \cup {"exited", "no_marker"}
            /\ exitCode' = Some(NormalExit)
            /\ UNCHANGED <<readFailed, raw, parsed, entries, metaDoc, genFile>>
       ELSE \E readThrows \in BOOLEAN :
            IF readThrows
            THEN /\ readFailed' = TRUE
                 /\ out' = out \cup {"exited", "uncaught_exception"}
                 /\ exitCode' = Some(UncaughtExit)
                 /\ UNCHANGED <<raw, parsed, entries, metaDoc, genFile>>
            ELSE LET lines == RawLines(log)
                     es == FilterEntries(ParseLines(lines))
                 IN  /\ raw' = lines
                     /\ parsed' = ParseLines(lines)
                     /\ entries' = es
                     /\ exitCode' = Some(NormalExit)
                     /\ UNCHANGED readFailed
                     /\ IF Len(es) = 0
                        THEN /\ out' = out \cup {"exited", "no_commands"}
                             /\ UNCHANGED <<metaDoc, genFile>>
                        ELSE /\ metaDoc' = Some(MetaDocument(es))
                             /\ genFile' = Some(ReplayScript(es))
                             /\ out' = out \cup {"exited", "generated"}
    /\ UNCHANGED <<argv, envShell, child, warned, log, marker, typed, endedBy,
                   childCode, childSignal>>
    /\ UNCHANGED replayVars

-----------------------------------------------------------------------------
(* The generated replay script, run as its own process *)

\* what spawnSync returns: error set (the spawn failed), a status, or a
\* signal (the child was killed; status is null)
SpawnResults ==
    {[error |-> FALSE, status |-> Some(c), signal |-> Null] : c \in ExitCodes}
    \cup {[error |-> FALSE, status |-> Null, signal |-> Some(sig)] : sig \in Signals}
    \cup {[error |-> TRUE, status |-> Null, signal |-> Null]}

\* r.status || 1
StatusOr1(r) == IF r.status = Null \/ r.status[1] = 0 THEN 1 ELSE r.status[1]

\* the status run(cmd) ends the process with, Null when it returns
RunExit(r) ==
    IF r.error THEN Some(StatusOr1(r))
    ELSE IF r.status # Null /\ r.status[1] # 0 THEN Some(r.status[1])
    ELSE Null

\* one run(<literal>) call of the script
ReplayRun ==
    /\ pc = "done"
    /\ genFile # Null
    /\ replayExit = Null
    /\ step < Len(genFile[1].steps)
    /\ \E r \in SpawnResults :
          /\ executed' = Append(executed,
                                [cmd |-> JsLiteralValue(genFile[1].steps[step + 1]),
                                 result |-> r])
          /\ replayExit' = RunExit(r)
    /\ step' = step + 1
    /\ UNCHANGED parentVars

\* the script's last statement has run
ReplayEnd ==
    /\ pc = "done"
    /\ genFile # Null
    /\ replayExit = Null
    /\ step = Len(genFile[1].steps)
    /\ replayExit' = Some(0)
    /\ UNCHANGED <<step, executed>>
    /\ UNCHANGED parentVars

-----------------------------------------------------------------------------
(* Specifications *)

\* a capture run, from process start to process exit
Next ==
    \/ Main
    \/ OnError
    \/ \E cmd \in Cmds : RunCommand(cmd)
    \/ Save
    \/ Cancel
    \/ \E code \in ExitCodes : ExitBuiltin(code)
    \/ \E code \in ExitCodes : EndOfInput(code)
    \/ \E sig \in Signals : Killed(sig)
    \/ OnExit

Spec == Init /\ [][Next]_vars

\* the characters of an arbitrary log
LogAlphabet == {SP, NL, CR, CONTROL, "save"}

\* the capture shell has just ended, with any content in commands.log and the
\* marker present or not: the exit handler, then a replay of what it generated
InitLog ==
    /\ argv = <<"capture">>
    /\ envShell = Null
    /\ pc = "child_exited"
    /\ log \in TextsUpTo(LogAlphabet, MaxLen)
    /\ marker \in BOOLEAN
    /\ Idle

NextLog ==
    \/ OnExit
    \/ ReplayRun
    \/ ReplayEnd

SpecLog == InitLog /\ [][NextLog]_vars

-----------------------------------------------------------------------------
(* Properties *)

Last(s) == s[Len(s)]

ChildEnded == endedBy # "none"

ArtifactWritten == metaDoc # Null /\ genFile # Null

\* the command strings held by the metadata document and by the script
MetaCmds == [i \in 1..Len(metaDoc[1].entries) |->
                 JsLiteralValue(metaDoc[1].entries[i].cmd)]
ScriptCmds == [i \in 1..Len(genFile[1].steps) |->
                   JsLiteralValue(genFile[1].steps[i])]

\* the commands of the session that are not calls of the control command
NotControlCall(cmd) == ~StartsWithControl(cmd)
SessionWork == SelectSeq(typed, NotControlCall)

\* C1: once the child has ended, the replay script and the metadata file
\* are written together, and they are written if and only if the save marker
\* exists at exit and the filtered entry list is not empty; before the
\* handler ran, and in every run that ended by cancel, exit, end of input or
\* a signal, neither file exists.
C1_ArtifactIffSavedWithEntries ==
    /\ (metaDoc # Null) <=> (genFile # Null)
    /\ pc # "done" => ~ArtifactWritten
    /\ pc = "done" => (ArtifactWritten <=> (marker /\ entries # <<>>))
    /\ endedBy \in {"none", "cancel", "exit", "eof", "signal"} => ~ArtifactWritten

C1_Witness ==
    /\ pc = "done"
    /\ endedBy = "save"
    /\ ArtifactWritten
    /\ Len(entries) = 2

\* C2: after a save, the metadata entries and the run(...) steps are exactly
\* the commands of the session that are not control-command calls, one entry
\* per command, in the order they were run.
C2_ArtifactHoldsSessionCommands ==
    (pc = "done" /\ endedBy = "save" /\ ~readFailed) =>
        /\ Len(entries) = Len(SessionWork)
        /\ ArtifactWritten <=> SessionWork # <<>>
        /\ ArtifactWritten =>
               /\ genFile[1].captured = Len(SessionWork)
               /\ MetaCmds = SessionWork
               /\ ScriptCmds = SessionWork

\* a step of the replay failed: spawn failure, a signal, or a status not 0
StepFailed(r) ==
    \/ r.error
    \/ r.signal # Null
    \/ r.status # Null /\ r.status[1] # 0

\* C3: replay stops at the first failed step: a failed step is the last one
\* executed, and the replay has then ended with a status that is not 0 (the
\* step's own status when that is not 0).
C3_ReplayStopsAtFirstFailure ==
    \A i \in 1..Len(executed) :
        StepFailed(executed[i].result) =>
            /\ i = Len(executed)
            /\ replayExit # Null
            /\ replayExit[1] # 0
            /\ (executed[i].result.status # Null /\ executed[i].result.status[1] # 0
                    => replayExit[1] = executed[i].result.status[1])

\* C4: every command the hook logged, other than a control-command call, is
\* found unchanged in the metadata document and as the argument of a
\* run(...) step, and the artifact has one entry per such command.
C4_CommandTextPreserved ==
    ArtifactWritten =>
        /\ \A i \in 1..Len(SessionWork) :
               /\ SessionWork[i] \in Range(MetaCmds)
               /\ SessionWork[i] \in Range(ScriptCmds)
        /\ Len(MetaCmds) = Len(SessionWork)
        /\ Len(ScriptCmds) = Len(SessionWork)

\* a call of shell2node save or shell2node cancel, however it was logged:
\* white space before the name does not change what the shell runs
IsControlCall(cmd) ==
    LET t == TrimStart(cmd)
    IN  /\ Len(t) >= 3
        /\ t[1] = CONTROL
        /\ t[2] = SP
        /\ t[3] \in {"save", "cancel"}

\* C5: no entry retained in the artifact is a call of shell2node save or
\* shell2node cancel, in whatever form the call was logged, and every entry
\* whose command text begins with shell2node is discarded.
C5_NoControlCallRetained ==
    (pc = "done" /\ marker /\ ~readFailed) =>
        /\ \A i \in 1..Len(entries) : ~IsControlCall(entries[i].cmd)
        /\ \A i \in 1..Len(parsed) :
               StartsWithControl(parsed[i].cmd) => parsed[i] \notin Range(entries)

\* C6: the parent ends with 0 whenever the child shell ran and ended,
\* whatever the child's code or signal; it ends with a status other than 0
\* only after a spawn failure (status 2, nothing generated) or a bad
\* invocation.
C6_ExitStatus ==
    pc = "done" =>
        /\ exitCode # Null
        /\ ChildEnded => exitCode = Some(0)
        /\ exitCode # Some(0) => ("spawn_failed" \in out \/ "usage" \in out)
        /\ "spawn_failed" \in out => exitCode = Some(2) /\ ~ArtifactWritten

\* C7: when the read of commands.log fails, the run reports that no commands
\* were recorded, writes nothing and ends normally, not by an uncaught
\* error.
C7_LogReadErrorIsNotFatal ==
    readFailed =>
        /\ "no_commands" \in out
        /\ "uncaught_exception" \notin out
        /\ exitCode = Some(0)
        /\ ~ArtifactWritten

ChildSpawned == pc = "running" \/ ChildEnded

InstrumentationAttached == child.zdotdir \/ child.args = RcFileArgs

\* the lower-cased base name of the shell path, read off the path directly
BaseWords ==
    LET path == IF envShell = Null \/ envShell[1] = <<>>
                THEN <<SLASH, "bin", SLASH, "bash">> ELSE envShell[1]
        k == CHOOSE i \in 1..Len(path) :
                 path[i] = SLASH /\ \A j \in (i + 1)..Len(path) : path[j] # SLASH
    IN  {path[j] : j \in (k + 1)..Len(path)}
BaseHas(word) ==
    \E w \in BaseWords : w = word \/ (word = "zsh" /\ w = "Zsh")
                                  \/ (word = "bash" /\ w = "BASH")

SplitsAtFirstSpace(line, e) ==
    IF SP \in Range(line)
    THEN /\ e.ts # Null
         /\ SP \notin Range(e.ts[1])
         /\ e.ts[1] \o <<SP>> \o e.cmd = line
    ELSE e.ts = Null /\ e.cmd = line

NoWhitespace(s) == SelectSeq(s, LAMBDA c : c \notin Whitespace)

LogEndsWith(cmd) ==
    LET tail == <<SP>> \o cmd \o <<NL>>
    IN  /\ Len(log) >= Len(tail)
        /\ SubSeq(log, Len(log) - Len(tail) + 1, Len(log)) = tail

=============================================================================
